---- MODULE Spec2Model ----
(***************************************************************************)
(* The file-system content source of src/content-source.ts: the forward    *)
(* converter (raw record -> typed document fields), the reverse mapper     *)
(* (typed update value -> raw value), updateDocument and the batch reads.  *)
(*                                                                         *)
(* Every value carries a kind tag k, so that values of different JavaScript *)
(* types are never compared component by component:                        *)
(*   raw values     S(x) string, N(x) number, A(seq) array, M(fn) object,  *)
(*                  Null, Undefined                                        *)
(*   field specs    F(...)            (k = "spec")                         *)
(*   typed fields   k = "field"       (DocumentField / UpdateOperationField)*)
(*   Thrown(e)      the evaluation threw e                                 *)
(***************************************************************************)
EXTENDS Integers, Sequences, FiniteSets, TLC

VARIABLES
    target,      \* the ECMAScript level the TypeScript source is compiled to
    \* -- one conversion: convertFieldType, then mapUpdateOperationToValue
    fieldValue,  \* the raw value handed to convertFieldType
    modelField,  \* the field spec handed to convertFieldType
    docField,    \* what convertFieldType returned
    updSpec,     \* the field spec handed to mapUpdateOperationToValue
    mapped,      \* what mapUpdateOperationToValue returned
    cpc,         \* "input" -> "converted" -> "mapped" ("off": no conversion under way)
    \* -- one updateDocument call
    files,       \* the content directory: file path -> what utils.parseFile yields
    original,    \* files as they were when the call began
    pc,          \* "idle" -> "applying" -> "saved" -> "returned", or "threw" ("off": no call)
    document,    \* options.document
    operations,  \* options.operations
    opIdx,       \* how many operations the loop has applied
    data,        \* the in-memory record (line 223)
    before,      \* data as it was before the operation applied last
    returned,    \* the call's result
    writeCount,  \* calls of utils.outputDataIfNeeded made by this call
    \* -- batch reads
    watching,    \* startWatchingContentUpdates has set this.getModelMap
    batch        \* the result of the last getDocuments / onFilesChange

convVars == <<fieldValue, modelField, docField, updSpec, mapped, cpc>>
updVars == <<files, original, pc, document, operations, opIdx, data, before, returned, writeCount>>
readVars == <<watching, batch>>
vars == <<target, convVars, updVars, readVars>>

(***************************************************************************)
(* Bounds.                                                                 *)
(***************************************************************************)
MaxLen == 3   \* longest raw array drawn as an input
MaxOps == 2   \* longest operation list handed to updateDocument

(***************************************************************************)
(* Raw values.                                                             *)
(***************************************************************************)
S(x) == [k |-> "str", s |-> x]
N(x) == [k |-> "num", n |-> x]
A(x) == [k |-> "arr", a |-> x]
M(x) == [k |-> "map", m |-> x]
Null == [k |-> "null"]
Undefined == [k |-> "undefined"]
Thrown(e) == [k |-> "throw", err |-> e]
None == [k |-> "none"]
EmptyMap == [x \in {} |-> Undefined]

IsThrown(v) == v.k = "throw"
IsNullish(v) == v.k \in {"null", "undefined"}

\* JavaScript truthiness: null, undefined, '' and 0 are falsy; every object,
\* array and typed field is truthy.
Truthy(v) == ~(IsNullish(v) \/ v = S("") \/ v = N(0))

Put(m, key, val) == [x \in DOMAIN m \cup {key} |-> IF x = key THEN val ELSE m[x]]
Omit(m, keys) == [x \in DOMAIN m \ keys |-> m[x]]

\* The first of a set of indices.
First(indices) == CHOOSE i \in indices : \A j \in indices : i <= j

\* The characters of the strings that occur in the model (a string is
\* iterable: spreading or iterating it yields its characters).
Chars(x) ==
    CASE x = "" -> <<>>
      [] x = "post" -> <<S("p"), S("o"), S("s"), S("t")>>
      [] x = "ghost" -> <<S("g"), S("h"), S("o"), S("s"), S("t")>>
      [] x = "author" -> <<S("a"), S("u"), S("t"), S("h"), S("o"), S("r")>>
      [] x = "editor" -> <<S("e"), S("d"), S("i"), S("t"), S("o"), S("r")>>
      [] x = "/img/cat.png" ->
            <<S("/"), S("i"), S("m"), S("g"), S("/"), S("c"), S("a"), S("t"),
              S("."), S("p"), S("n"), S("g")>>
      [] OTHER -> <<S(x)>>

IsIterable(v) == v.k \in {"arr", "str"}
Spread(v) == IF v.k = "arr" THEN v.a ELSE Chars(v.s)

\* path.parse(p).name for the paths that occur in the model: the base name
\* without its extension.
PathName(x) == IF x = "/img/cat.png" THEN "cat" ELSE x

\* The own enumerable string-keyed properties that a field spec can name.  An
\* array or a string has index keys only ("0", "1", ...), a number has none;
\* no field spec of the schema below is named by an index.
Entries(v) == IF v.k = "map" THEN v.m ELSE EmptyMap

(***************************************************************************)
(* Field specs and the model registry.                                     *)
(***************************************************************************)
F(name, type, items, fields, models) ==
    [k |-> "spec", name |-> name, type |-> type, items |-> items,
     fields |-> fields, models |-> models]

TypeOf(spec) == IF spec.k = "spec" THEN spec.type ELSE "undefined"
FieldsOf(spec) == IF spec.k = "spec" THEN spec.fields ELSE <<>>

ScalarTypes ==
    {"string", "slug", "text", "html", "url", "boolean", "number", "date",
     "datetime", "enum", "json", "style", "color", "markdown"}

DefaultItems == F("", "string", Undefined, <<>>, <<>>)   \* line 373: { type: 'string' }
StringItems == F("", "string", Undefined, <<>>, <<>>)
TitleSpec == F("title", "string", Undefined, <<>>, <<>>)
NameSpec == F("name", "string", Undefined, <<>>, <<>>)
DescSpec == F("desc", "string", Undefined, <<>>, <<>>)
CountSpec == F("n", "number", Undefined, <<>>, <<>>)
LegacySpec == F("legacy", "unsupported", Undefined, <<>>, <<>>)
TagsSpec == F("tags", "list", StringItems, <<>>, <<>>)
NotesSpec == F("notes", "list", Undefined, <<>>, <<>>)
MetaSpec == F("meta", "object", Undefined, <<DescSpec, CountSpec, LegacySpec>>, <<>>)
AuthorSpec == F("author", "model", Undefined, <<>>, <<"author", "editor">>)
BlockItems == F("", "model", Undefined, <<>>, <<"author", "editor">>)
BlocksSpec == F("blocks", "list", BlockItems, <<>>, <<>>)
RefSpec == F("ref", "reference", Undefined, <<>>, <<>>)
CoverSpec == F("cover", "image", Undefined, <<>>, <<>>)

modelMap ==
    [post |-> [name |-> "post",
               fields |-> <<TitleSpec, TagsSpec, NotesSpec, MetaSpec, AuthorSpec,
                            BlocksSpec, RefSpec, CoverSpec, LegacySpec>>],
     author |-> [name |-> "author", fields |-> <<NameSpec>>],
     editor |-> [name |-> "editor", fields |-> <<NameSpec, TitleSpec>>]]

\* modelMap[type]: the type discriminators of the model are strings or absent.
LookupModel(type) ==
    IF type.k = "str" /\ type.s \in DOMAIN modelMap THEN modelMap[type.s] ELSE Undefined

\* modelFields.find(f => f.name === fieldName)
FindField(modelFields, fieldName) ==
    LET Match(i) == modelFields[i].name = fieldName
    IN IF \E i \in 1..Len(modelFields) : Match(i)
       THEN modelFields[First({i \in 1..Len(modelFields) : Match(i)})]
       ELSE Undefined

(***************************************************************************)
(* The forward converter.                                                  *)
(***************************************************************************)
ScalarField(type, value) == [k |-> "field", type |-> type, value |-> value]
ListField(items) == [k |-> "field", type |-> "list", items |-> items]
ObjectField(fields) == [k |-> "field", type |-> "object", fields |-> fields]
ModelField(modelName, fields) ==
    [k |-> "field", type |-> "model", modelName |-> modelName, fields |-> fields]
ReferenceField(refId) ==
    [k |-> "field", type |-> "reference", refType |-> "document", refId |-> refId]
ImageField(title, url) ==
    [k |-> "field", type |-> "image",
     fields |-> [title |-> ScalarField("string", title), url |-> ScalarField("string", url)]]
Fields(m) == [k |-> "fields", m |-> m]

\* Line 341: the raw field is skipped.
SkippedNoFalsyTest(spec, value) == spec = Undefined
Skipped(spec, value) == spec = Undefined \/ ~Truthy(value)

\* Lines 375-380: the converted items that are pushed, in order.
KeepItemsReversed(conv) ==
    LET kept == SelectSeq(conv, Truthy)
    IN [i \in 1..Len(kept) |-> kept[Len(kept) + 1 - i]]
KeepItems(conv) == SelectSeq(conv, Truthy)

\* Line 392: type ?? modelField.models?.[0]
ResolveModelTypeLast(type, spec) ==
    IF ~IsNullish(type) THEN type
    ELSE IF spec.k = "spec" /\ Len(spec.models) > 0 THEN S(spec.models[Len(spec.models)])
    ELSE Undefined
ResolveModelType(type, spec) ==
    IF ~IsNullish(type) THEN type
    ELSE IF spec.k = "spec" /\ Len(spec.models) > 0 THEN S(spec.models[1])
    ELSE Undefined

RECURSIVE convertFields(_, _), convertFieldType(_, _)

\* dataFields is the mapping of the raw fields; the result is Fields(mapping)
\* or Thrown.  Object.entries order is not modelled: when several fields
\* throw, one of their errors is the one reported.
convertFields(dataFields, modelFields) ==
    LET spec(n) == FindField(modelFields, n)
        taken == {n \in DOMAIN dataFields : ~Skipped(spec(n), dataFields[n])}
        conv == [n \in taken |-> convertFieldType(dataFields[n], spec(n))]
        thrown == {n \in taken : IsThrown(conv[n])}
        kept == {n \in taken : Truthy(conv[n])}
    IN IF thrown # {}
       THEN conv[CHOOSE n \in thrown : TRUE]
       ELSE Fields([n \in kept |-> conv[n]])

convertFieldType(value, spec) ==
    LET type == TypeOf(spec)
    IN CASE type \in ScalarTypes -> ScalarField(type, value)
         [] type = "list" ->
              LET itemsModel == IF IsNullish(spec.items) THEN DefaultItems ELSE spec.items
                  raw == Spread(value)
                  conv == [i \in 1..Len(raw) |-> convertFieldType(raw[i], itemsModel)]
                  Throws(i) == IsThrown(conv[i])
              IN IF ~IsIterable(value) THEN Thrown("TypeError")
                 ELSE IF \E i \in 1..Len(raw) : Throws(i)
                 THEN conv[First({i \in 1..Len(raw) : Throws(i)})]
                 ELSE ListField(KeepItems(conv))
         [] type = "object" ->
              LET r == convertFields(Entries(value), spec.fields)
              IN IF IsNullish(value) THEN Thrown("TypeError")
                 ELSE IF IsThrown(r) THEN r
                 ELSE ObjectField(r.m)
         [] type = "model" ->
              LET own == Entries(value)
                  rawType == IF "type" \in DOMAIN own THEN own["type"] ELSE Undefined
                  model == LookupModel(ResolveModelType(rawType, spec))
                  r == convertFields(Omit(own, {"id", "type"}), model.fields)
              IN IF IsNullish(value) THEN Thrown("TypeError")
                 ELSE IF model = Undefined THEN Null
                 ELSE IF IsThrown(r) THEN r
                 ELSE ModelField(model.name, r.m)
         [] type = "reference" -> ReferenceField(value)
         [] type = "image" ->
              IF value.k # "str" THEN Thrown("TypeError")
              ELSE ImageField(S(PathName(value.s)), value)
         [] OTHER -> Thrown("Unsupported type")

(***************************************************************************)
(* The reverse mapper.                                                     *)
(***************************************************************************)
Targets == {"es5", "es2015"}

RECURSIVE mapUpdateOperationToValue(_, _)

\* Lines 431-438.  `result` (line 436) is the binding that line 442 declares in
\* the same switch block.  Built for ES2015 or later it is in its temporal dead
\* zone here, and reading it throws a ReferenceError; built for ES5 it is a
\* hoisted var holding undefined, and _.set(undefined, ...) does nothing.
\* Either way no entry is ever added to `object`.  _.forEach order is not
\* modelled: the first child is one of the children.
mapObject(u, spec) ==
    LET names == DOMAIN u.fields
        child(n) == mapUpdateOperationToValue(u.fields[n], FindField(FieldsOf(spec), n))
        thrown == {n \in names : IsThrown(child(n))}
        first == CHOOSE n \in names : TRUE
    IN IF names = {} THEN M(EmptyMap)
       ELSE IF IsNullish(spec) THEN Thrown("TypeError")
       ELSE IF target = "es2015"
       THEN IF IsThrown(child(first)) THEN child(first) ELSE Thrown("ReferenceError")
       ELSE IF thrown # {} THEN child(CHOOSE n \in thrown : TRUE)
       ELSE M(EmptyMap)

\* Lines 439-448.
mapModel(u) ==
    LET childModel == IF u.modelName \in DOMAIN modelMap THEN modelMap[u.modelName] ELSE Undefined
        childFields == IF childModel = Undefined THEN <<>> ELSE childModel.fields
        names == DOMAIN u.fields
        child == [n \in names |-> mapUpdateOperationToValue(u.fields[n], FindField(childFields, n))]
        thrown == {n \in names : IsThrown(child[n])}
    IN IF thrown # {} THEN child[CHOOSE n \in thrown : TRUE] ELSE M(child)

\* Lines 449-459.
mapList(u, spec) ==
    LET listItemsModel == IF TypeOf(spec) = "list" THEN spec.items ELSE Undefined
        itemSpec(item) ==
            IF listItemsModel.k = "specs"
            THEN LET Match(i) == listItemsModel.list[i].type = item.type
                 IN IF \E i \in 1..Len(listItemsModel.list) : Match(i)
                    THEN listItemsModel.list[First({i \in 1..Len(listItemsModel.list) : Match(i)})]
                    ELSE Undefined
            ELSE IF listItemsModel.k = "spec" THEN listItemsModel
            ELSE Undefined
        vals == [i \in 1..Len(u.items) |-> mapUpdateOperationToValue(u.items[i], itemSpec(u.items[i]))]
        Throws(i) == IsThrown(vals[i])
    IN IF \E i \in 1..Len(vals) : Throws(i)
       THEN vals[First({i \in 1..Len(vals) : Throws(i)})]
       ELSE A(vals)

mapUpdateOperationToValue(u, spec) ==
    CASE u.type = "object" -> mapObject(u, spec)
      [] u.type = "model" -> mapModel(u)
      [] u.type = "list" -> mapList(u, spec)
      [] u.type = "reference" -> u.refId
      [] OTHER -> IF "value" \in DOMAIN u THEN u.value ELSE Undefined

(***************************************************************************)
(* One conversion and its way back: the inputs are the raw values of the   *)
(* shape each field spec of the schema describes.                          *)
(***************************************************************************)
SeqsUpTo(set, n) == UNION {[1..m -> set] : m \in 0..n}

\* The mappings that give some of the keys of `choices` one of its values.
MapsOver(choices) ==
    UNION {{f \in [D -> UNION {choices[key] : key \in D}] : \A key \in D : f[key] \in choices[key]} :
           D \in SUBSET DOMAIN choices}

MetaValues ==
    {M(f) : f \in MapsOver([desc |-> {S("a"), S("")}, n |-> {N(1), N(0)}, extra |-> {S("b")},
                             legacy |-> {S("a"), S("")}])}
AuthorValues ==
    {M(f) : f \in MapsOver([type |-> {S("author"), S("editor"), S("ghost"), Null},
                            id |-> {S("a")},
                            name |-> {S("a"), S("")},
                            title |-> {S("b")}])}
BlockValues ==
    {M([name |-> S("a")]), M([type |-> S("editor"), name |-> S("b")]), M([type |-> S("ghost")])}

ConvInputs ==
    ({TitleSpec} \X {S("a"), S("b")})
    \cup ({CountSpec} \X {N(1)})
    \cup ({TagsSpec, NotesSpec} \X {A(x) : x \in SeqsUpTo({S("a"), S("b")}, MaxLen)})
    \cup ({MetaSpec} \X MetaValues)
    \cup ({AuthorSpec} \X AuthorValues)
    \cup ({BlocksSpec} \X {A(x) : x \in SeqsUpTo(BlockValues, MaxLen)})
    \cup ({RefSpec} \X {S("a")})
    \cup ({CoverSpec} \X {S("/img/cat.png")})
    \cup ({LegacySpec} \X {S("a")})

ConvIdle ==
    /\ fieldValue = None /\ modelField = None /\ docField = None
    /\ updSpec = None /\ mapped = None /\ cpc = "off"
UpdIdle ==
    /\ pc = "off" /\ document = None /\ operations = <<>> /\ opIdx = 0
    /\ data = None /\ before = None /\ returned = None /\ writeCount = 0
    /\ files = EmptyMap /\ original = EmptyMap
ReadIdle == watching = FALSE /\ batch = None

InitConv ==
    /\ target \in Targets
    /\ \E in \in ConvInputs : modelField = in[1] /\ fieldValue = in[2]
    /\ docField = None /\ updSpec = None /\ mapped = None /\ cpc = "input"
    /\ UpdIdle /\ ReadIdle

\* convertFieldType(fieldValue, modelField, modelMap), as convertFields calls it
\* for one raw field.
ConvertFieldType ==
    /\ cpc = "input"
    /\ docField' = convertFieldType(fieldValue, modelField)
    /\ cpc' = "converted"
    /\ UNCHANGED <<target, fieldValue, modelField, updSpec, mapped, updVars, readVars>>

\* mapUpdateOperationToValue(field, modelMap, modelField) for a `set` whose
\* field is the typed field just produced; the operation's modelField is the
\* field's spec, or is absent.
MapUpdateOperationToValue ==
    /\ cpc = "converted"
    /\ docField.k = "field"
    /\ \E spec \in {modelField, Undefined} :
         /\ updSpec' = spec
         /\ mapped' = mapUpdateOperationToValue(docField, spec)
    /\ cpc' = "mapped"
    /\ UNCHANGED <<target, fieldValue, modelField, docField, updVars, readVars>>

NextConv == ConvertFieldType \/ MapUpdateOperationToValue

SpecConv == InitConv /\ [][NextConv]_vars

(***************************************************************************)
(* Properties of one conversion (checked under SpecConv).                  *)
(***************************************************************************)
RoundTripTypes == ScalarTypes \cup {"list", "object", "model", "reference"}

\* The forward conversion of `value` under `spec` keeps every part of it: each
\* nested raw field has a spec and a truthy value, each model value resolves
\* and carries no `type` or `id` key, and no list element converts to null.
RECURSIVE Lossless(_, _)
Lossless(value, spec) ==
    LET type == TypeOf(spec)
        AllKept(m, fields) ==
            \A n \in DOMAIN m :
                /\ FindField(fields, n) # Undefined
                /\ Truthy(m[n])
                /\ Lossless(m[n], FindField(fields, n))
    IN CASE type = "list" ->
              /\ value.k = "arr"
              /\ \A i \in 1..Len(value.a) :
                    Lossless(value.a[i], IF spec.items = Undefined THEN StringItems ELSE spec.items)
         [] type = "object" -> value.k = "map" /\ AllKept(value.m, spec.fields)
         [] type = "model" ->
              /\ value.k = "map"
              /\ DOMAIN value.m \cap {"type", "id"} = {}
              /\ Len(spec.models) > 0 /\ spec.models[1] \in DOMAIN modelMap
              /\ AllKept(value.m, modelMap[spec.models[1]].fields)
         [] OTHER -> type \in RoundTripTypes

\* C1: a typed field produced by the forward converter, mapped back as the
\* value of a `set` with the same field spec, is the raw value it came from
\* (stated for the raw values whose forward conversion keeps every part).
C1_RoundTrip ==
    (cpc = "mapped" /\ updSpec = modelField /\ Lossless(fieldValue, modelField))
        => mapped = fieldValue

\* C5: convertFields emits no entry for a raw field without a spec or with a
\* falsy value, every key it emits is a raw key with a spec and a truthy
\* value, and it raises an error only when the conversion of such a field does.
C5_SkippedFieldsDropped ==
    (cpc # "input" /\ TypeOf(modelField) = "object") =>
        LET raw == fieldValue.m
            HasSpec(n) == \E i \in 1..Len(modelField.fields) : modelField.fields[i].name = n
            dropped == {n \in DOMAIN raw : ~HasSpec(n) \/ ~Truthy(raw[n])}
            SpecOf(n) == CHOOSE f \in {modelField.fields[i] : i \in 1..Len(modelField.fields)} : f.name = n
        IN IF IsThrown(docField)
           THEN \E n \in DOMAIN raw \ dropped : IsThrown(convertFieldType(raw[n], SpecOf(n)))
           ELSE /\ DOMAIN docField.fields \subseteq DOMAIN raw
                /\ DOMAIN docField.fields \cap dropped = {}

C5_Witness ==
    /\ cpc = "converted" /\ TypeOf(modelField) = "object" /\ docField.k = "field"
    /\ DOMAIN fieldValue.m = {"desc", "n", "extra", "legacy"}
    /\ fieldValue.m["n"] = N(0) /\ fieldValue.m["legacy"] = S("")
    /\ DOMAIN docField.fields = {"desc"}

\* C6: a list conversion emits the conversions of the raw elements in their
\* order when none is dropped, and with exactly one element converting to null
\* it emits the other elements' conversions in their order.
C6_ListOrder ==
    (cpc # "input" /\ TypeOf(modelField) = "list" /\ docField.k = "field") =>
        LET raw == fieldValue.a
            itemsModel == IF modelField.items = Undefined THEN StringItems ELSE modelField.items
            conv == [i \in 1..Len(raw) |-> convertFieldType(raw[i], itemsModel)]
            nulls == {i \in 1..Len(raw) : conv[i] = Null}
            d == CHOOSE i \in nulls : TRUE
        IN /\ nulls = {} => docField.items = conv
           /\ Cardinality(nulls) = 1 =>
                docField.items = [j \in 1..(Len(raw) - 1) |-> conv[IF j < d THEN j ELSE j + 1]]

C6_Witness ==
    /\ cpc = "converted" /\ modelField = BlocksSpec /\ docField.k = "field"
    /\ Len(fieldValue.a) = 3 /\ fieldValue.a[2] = M([type |-> S("ghost")])
    /\ Len(docField.items) = 2
    /\ docField.items[1].modelName = "author" /\ docField.items[2].modelName = "editor"

\* C7: a model-typed raw value without a `type` key resolves to the model
\* named first in the field spec's allowed models, whose name the emitted
\* field carries.
C7_FirstAllowedModel ==
    (cpc # "input" /\ TypeOf(modelField) = "model" /\ "type" \notin DOMAIN fieldValue.m) =>
        LET first == modelMap[modelField.models[1]]
        IN /\ docField.k = "field"
           /\ docField.modelName = first.name
           /\ DOMAIN docField.fields \subseteq {first.fields[i].name : i \in 1..Len(first.fields)}

C7_Witness ==
    /\ cpc = "converted" /\ modelField = AuthorSpec
    /\ DOMAIN fieldValue.m = {"name", "title"} /\ Truthy(fieldValue.m["name"])
    /\ docField.k = "field" /\ docField.modelName = "author"
    /\ DOMAIN docField.fields = {"name"}

\* C9: an `object` update value maps to a raw mapping with one entry per child
\* update field, each the mapping of that child under the spec of its name in
\* the field spec's nested fields; an absent field spec raises no error.
C9_ObjectMapping ==
    (cpc = "mapped" /\ docField.type = "object") =>
        /\ mapped.k = "map"
        /\ DOMAIN mapped.m = DOMAIN docField.fields
        /\ \A n \in DOMAIN docField.fields :
             mapped.m[n] = mapUpdateOperationToValue(docField.fields[n], FindField(FieldsOf(updSpec), n))

(***************************************************************************)
(* Files.  utils.parseFile yields the record of a data file, and            *)
(* { frontmatter, markdown } for a markdown file; it throws on a file that *)
(* is missing or cannot be parsed.                                         *)
(***************************************************************************)
Paths == {"a.md", "b.json"}
MarkdownPaths == {"a.md"}     \* the paths with an extension of line 27
Unparsable == [k |-> "unparsable"]
Markdown(frontmatter, markdown) == [k |-> "md", frontmatter |-> frontmatter, markdown |-> markdown]

\* Lines 478-485.
getFileData(fs, path) ==
    IF path \notin DOMAIN fs \/ fs[path] = Unparsable THEN Thrown("parseFile")
    ELSE IF path \in MarkdownPaths /\ fs[path].k = "md" THEN fs[path].frontmatter
    ELSE fs[path]

\* Lines 487-498: the file system after saveFileData(path, d).
saveFileDataUnwrapped(fs, path, d) == [fs EXCEPT ![path] = d]
saveFileData(fs, path, d) ==
    IF path \in MarkdownPaths
    THEN [fs EXCEPT ![path] = Markdown(d, IF fs[path].k = "md" THEN fs[path].markdown ELSE "")]
    ELSE [fs EXCEPT ![path] = d]

\* Lines 319-335.  createdAt and updatedAt come from the file system's clock
\* and are left out.
Document(id, modelName, fields) ==
    [k |-> "document", type |-> "document", id |-> id, modelName |-> modelName,
     manageUrl |-> "", status |-> "published", fields |-> fields]

convertDocument(filePath, d) ==
    LET own == Entries(d)
        type == IF "type" \in DOMAIN own THEN own["type"] ELSE Undefined
        model == LookupModel(type)
        r == convertFields(Omit(own, {"id", "type"}), model.fields)
    IN IF model = Undefined THEN Null
       ELSE IF IsThrown(r) THEN r
       ELSE Document(filePath, model.name, r.m)

(***************************************************************************)
(* updateDocument.  A field path is a sequence of keys; the paths of the   *)
(* model lead through objects only.                                        *)
(***************************************************************************)
RECURSIVE Get(_, _), SetAt(_, _, _), UnsetAt(_, _)

\* _.get(v, path)
Get(v, path) ==
    IF path = <<>> THEN v
    ELSE IF v.k = "map" /\ Head(path) \in DOMAIN v.m THEN Get(v.m[Head(path)], Tail(path))
    ELSE Undefined

\* _.set(v, path, val): a missing or non-object step of the path becomes {}.
SetAt(v, path, val) ==
    LET key == Head(path)
        own == Entries(v)
        child == IF key \in DOMAIN own /\ own[key].k = "map" THEN own[key] ELSE M(EmptyMap)
    IN IF Len(path) = 1 THEN M(Put(own, key, val))
       ELSE M(Put(own, key, SetAt(child, Tail(path), val)))

\* _.unset(v, path)
UnsetAt(v, path) ==
    LET key == Head(path)
    IN IF v.k # "map" \/ key \notin DOMAIN v.m THEN v
       ELSE IF Len(path) = 1 THEN M(Omit(v.m, {key}))
       ELSE M(Put(v.m, key, UnsetAt(v.m[key], Tail(path))))

Min(a, b) == IF a < b THEN a ELSE b
Max(a, b) == IF a > b THEN a ELSE b

\* Array.prototype.splice(start, deleteCount, ...items) on a copy of arr, with
\* start an integer or undefined (which counts as 0): the array left.
SpliceAfter(arr, start, deleteCount, items) ==
    LET len == Len(arr)
        rel == IF start.k = "num" THEN start.n + 1 ELSE 1
        from == IF rel < 0 THEN Max(len + rel, 0) ELSE Min(rel, len)
        del == Min(Max(deleteCount, 0), len - from)
    IN SubSeq(arr, 1, from) \o items \o SubSeq(arr, from + del + 1, len)
Splice(arr, start, deleteCount, items) ==
    LET len == Len(arr)
        rel == IF start.k = "num" THEN start.n ELSE 0
        from == IF rel < 0 THEN Max(len + rel, 0) ELSE Min(rel, len)
        del == Min(Max(deleteCount, 0), len - from)
    IN SubSeq(arr, 1, from) \o items \o SubSeq(arr, from + del + 1, len)

\* Line 255: order.map((newIndex) => arr[newIndex])
ReorderInverse(arr, order) ==
    [i \in 1..Len(order) |->
        IF \E j \in 1..Len(order) : order[j] + 1 = i /\ j <= Len(arr)
        THEN arr[CHOOSE j \in 1..Len(order) : order[j] + 1 = i /\ j <= Len(arr)]
        ELSE Undefined]
Reorder(arr, order) ==
    [i \in 1..Len(order) |->
        IF order[i] + 1 \in 1..Len(arr) THEN arr[order[i] + 1] ELSE Undefined]

Op(opType, fieldPath, field, spec, index, order) ==
    [opType |-> opType, fieldPath |-> fieldPath, field |-> field, modelField |-> spec,
     index |-> index, order |-> order]

\* Lines 225-259: the record after one operation, or Thrown.
ApplyOperation(d, op) ==
    LET value == mapUpdateOperationToValue(op.field, op.modelField)
        held == Get(d, op.fieldPath)
        arr == Spread(held)
    IN CASE op.opType = "set" ->
              IF IsThrown(value) THEN value ELSE SetAt(d, op.fieldPath, value)
         [] op.opType = "unset" -> UnsetAt(d, op.fieldPath)
         [] op.opType = "insert" ->
              IF IsThrown(value) THEN value
              ELSE IF ~IsIterable(held) THEN Thrown("TypeError")
              ELSE SetAt(d, op.fieldPath, A(Splice(arr, IF IsNullish(op.index) THEN N(0) ELSE op.index, 0, <<value>>)))
         [] op.opType = "remove" ->
              IF ~IsIterable(held) THEN Thrown("TypeError")
              ELSE SetAt(d, op.fieldPath, A(Splice(arr, op.index, 1, <<>>)))
         [] op.opType = "reorder" ->
              IF ~IsIterable(held) THEN Thrown("TypeError")
              ELSE SetAt(d, op.fieldPath, A(Reorder(arr, op.order)))

\* Line 262: (await convertDocument(...)) || document
ResultKeepsInput(converted, doc) == [ref |-> "input", value |-> doc]
Result(converted, doc) ==
    IF Truthy(converted)
    THEN [ref |-> "fresh", value |-> converted]
    ELSE [ref |-> "input", value |-> doc]

(***************************************************************************)
(* The inputs of an updateDocument call.                                   *)
(***************************************************************************)
StringUpdate(x) == ScalarField("string", S(x))

Operations ==
    {Op("set", <<"title">>, StringUpdate("b"), TitleSpec, Undefined, <<>>),
     Op("set", <<"meta">>, ObjectField([desc |-> StringUpdate("a")]), MetaSpec, Undefined, <<>>),
     Op("set", <<"meta", "desc">>, StringUpdate("b"), DescSpec, Undefined, <<>>),
     Op("set", <<"type">>, StringUpdate("ghost"), Undefined, Undefined, <<>>),
     Op("set", <<"legacy">>, StringUpdate("a"), LegacySpec, Undefined, <<>>),
     Op("unset", <<"type">>, None, Undefined, Undefined, <<>>),
     Op("insert", <<"missing">>, StringUpdate("d"), StringItems, N(0), <<>>),
     Op("remove", <<"tags">>, None, Undefined, N(0), <<>>),
     Op("remove", <<"title">>, None, Undefined, N(0), <<>>),
     Op("reorder", <<"tags">>, None, Undefined, Undefined, <<2, 0, 1>>),
     Op("reorder", <<"tags">>, None, Undefined, Undefined, <<1, 0>>)}
    \cup {Op("insert", <<"tags">>, StringUpdate("d"), StringItems, i, <<>>) :
            i \in {Undefined, N(1), N(5), N(-1)}}

OperationLists == SeqsUpTo(Operations, MaxOps)

PostRecord ==
    M([id |-> S("x"), type |-> S("post"), title |-> S("a"),
       tags |-> A(<<S("a"), S("b"), S("c")>>)])
GhostRecord == M([type |-> S("ghost"), title |-> S("a")])
ShortRecord == M([type |-> S("post"), tags |-> A(<<S("a")>>)])

\* options.document: a Document read earlier; its id is a file path.
InputDocuments == {Document(p, "post", EmptyMap) : p \in Paths \cup {"gone.json"}}

Init ==
    /\ target \in Targets
    /\ \E a \in {PostRecord, GhostRecord}, b \in {ShortRecord, Unparsable} :
         files = [p \in Paths |-> IF p = "a.md" THEN Markdown(a, "body") ELSE b]
    /\ original = files
    /\ pc = "idle" /\ document = None /\ operations = <<>> /\ opIdx = 0
    /\ data = None /\ before = None /\ returned = None /\ writeCount = 0
    /\ ConvIdle /\ ReadIdle

\* Lines 221-223: the call begins and reads the record.
UpdateBegin ==
    /\ pc = "idle"
    /\ \E doc \in InputDocuments, ops \in OperationLists :
         /\ document' = doc
         /\ operations' = ops
         /\ LET d == getFileData(files, doc.id)
            IN IF IsThrown(d)
               THEN pc' = "threw" /\ returned' = d /\ data' = data
               ELSE pc' = "applying" /\ data' = d /\ returned' = returned
    /\ UNCHANGED <<target, files, original, opIdx, before, writeCount, convVars, readVars>>

\* One turn of the loop that also writes the record it has so far.
ApplyNextAndSave ==
    /\ pc = "applying"
    /\ opIdx < Len(operations)
    /\ LET r == ApplyOperation(data, operations[opIdx + 1])
       IN IF IsThrown(r)
          THEN /\ pc' = "threw" /\ returned' = r
               /\ UNCHANGED <<data, before, opIdx, files, writeCount>>
          ELSE /\ before' = data /\ data' = r /\ opIdx' = opIdx + 1
               /\ files' = saveFileData(files, document.id, r)
               /\ writeCount' = writeCount + 1
               /\ UNCHANGED <<pc, returned>>
    /\ UNCHANGED <<target, original, document, operations, convVars, readVars>>

\* Lines 224-260: one turn of the loop.
ApplyNext ==
    /\ pc = "applying"
    /\ opIdx < Len(operations)
    /\ LET r == ApplyOperation(data, operations[opIdx + 1])
       IN IF IsThrown(r)
          THEN /\ pc' = "threw" /\ returned' = r
               /\ UNCHANGED <<data, before, opIdx>>
          ELSE /\ before' = data /\ data' = r /\ opIdx' = opIdx + 1
               /\ UNCHANGED <<pc, returned>>
    /\ UNCHANGED <<target, files, original, document, operations, writeCount, convVars, readVars>>

\* Line 261: the loop is over and the record is written.
Save ==
    /\ pc = "applying"
    /\ opIdx = Len(operations)
    /\ files' = saveFileData(files, document.id, data)
    /\ writeCount' = writeCount + 1
    /\ pc' = "saved"
    /\ UNCHANGED <<target, original, document, operations, opIdx, data, before, returned,
                   convVars, readVars>>

\* Line 262: the written record is converted and the call returns.
Return ==
    /\ pc = "saved"
    /\ LET converted == convertDocument(document.id, data)
       IN IF IsThrown(converted)
          THEN pc' = "threw" /\ returned' = converted
          ELSE pc' = "returned" /\ returned' = Result(converted, document)
    /\ UNCHANGED <<target, files, original, document, operations, opIdx, data, before,
                   writeCount, convVars, readVars>>

Next == UpdateBegin \/ ApplyNext \/ Save \/ Return

Spec == Init /\ [][Next]_vars

(***************************************************************************)
(* Properties of updateDocument (checked under Spec).                      *)
(***************************************************************************)
\* The operation applied last, the array it found at its path and the array
\* it left there.
LastOp == operations[opIdx]
OldHeld == Get(before, LastOp.fieldPath)
NewHeld == Get(data, LastOp.fieldPath)

\* new is old with one element put in at (0-based) position pos.
InsertedAt(old, new, pos, value) ==
    /\ Len(new) = Len(old) + 1
    /\ pos + 1 \in 1..Len(new)
    /\ new[pos + 1] = value
    /\ \A j \in 1..Len(old) : new[IF j <= pos THEN j ELSE j + 1] = old[j]

\* C3 as stated: an insert at index i into the array at fieldPath makes the
\* array one longer, with the mapped item at index i and the elements present
\* before in their order.
C3_InsertAtGivenIndex ==
    (opIdx > 0 /\ LastOp.opType = "insert" /\ LastOp.index.k = "num" /\ OldHeld.k = "arr") =>
        /\ NewHeld.k = "arr"
        /\ InsertedAt(OldHeld.a, NewHeld.a, LastOp.index.n,
                      mapUpdateOperationToValue(LastOp.field, LastOp.modelField))

\* C3 amended: the mapped item is at index i when 0 <= i <= length, at index 0
\* when the index is omitted, at the end when i > length and at
\* max(length + i, 0) when i < 0; the array is one longer and the elements
\* present before keep their order.
C3_InsertAtClampedIndex ==
    (opIdx > 0 /\ LastOp.opType = "insert" /\ OldHeld.k = "arr") =>
        LET len == Len(OldHeld.a)
            i == LastOp.index.n
            pos == IF LastOp.index.k # "num" THEN 0
                   ELSE IF i < 0 THEN (IF len + i > 0 THEN len + i ELSE 0)
                   ELSE IF i > len THEN len ELSE i
        IN /\ NewHeld.k = "arr"
           /\ InsertedAt(OldHeld.a, NewHeld.a, pos,
                         mapUpdateOperationToValue(LastOp.field, LastOp.modelField))

C3_Witness ==
    /\ opIdx > 0 /\ LastOp.opType = "insert" /\ LastOp.index = N(1)
    /\ OldHeld = A(<<S("a"), S("b"), S("c")>>)
    /\ NewHeld = A(<<S("a"), S("d"), S("b"), S("c")>>)

\* The record that the file of the input document holds.
Persisted == getFileData(files, document.id)
PersistedModel ==
    LookupModel(IF "type" \in DOMAIN Persisted.m THEN Persisted.m["type"] ELSE Undefined)
FreshFromPersisted ==
    /\ returned.ref = "fresh"
    /\ returned.value.id = document.id
    /\ returned.value.modelName = PersistedModel.name
    /\ returned.value.fields =
         convertFields(Omit(Persisted.m, {"id", "type"}), PersistedModel.fields).m

\* C4 as stated: the Document updateDocument returns is built afresh from the
\* record just persisted, is never the input document, and has its id.
C4_AlwaysFresh == pc = "returned" => FreshFromPersisted

\* C4 amended: the returned Document has the input document's id; it is built
\* afresh from the record just persisted when that record's `type` names a
\* model of the registry, and is the input document itself when it does not.
C4_FreshOrInput ==
    pc = "returned" =>
        /\ returned.value.id = document.id
        /\ IF PersistedModel # Undefined
           THEN FreshFromPersisted
           ELSE returned.ref = "input" /\ returned.value = document

C4_Witness ==
    /\ pc = "returned" /\ opIdx = 2 /\ returned.ref = "fresh"
    /\ returned.value.fields # document.fields
    /\ "title" \in DOMAIN returned.value.fields
    /\ returned.value.fields["title"].value = S("b")

IsPermutation(order, n) ==
    /\ Len(order) = n
    /\ \A i \in 0..(n - 1) : \E j \in 1..n : order[j] = i

Count(seq, e) == Cardinality({i \in 1..Len(seq) : seq[i] = e})

\* C8: a reorder whose order is a permutation of the array's indices leaves an
\* array whose k-th element is the old array's element at order[k], with the
\* same length and the same elements.
C8_ReorderByPermutation ==
    (opIdx > 0 /\ LastOp.opType = "reorder" /\ OldHeld.k = "arr"
        /\ IsPermutation(LastOp.order, Len(OldHeld.a))) =>
        /\ NewHeld.k = "arr"
        /\ Len(NewHeld.a) = Len(OldHeld.a)
        /\ \A i \in 1..Len(NewHeld.a) : NewHeld.a[i] = OldHeld.a[LastOp.order[i] + 1]
        /\ \A i \in 1..Len(OldHeld.a) :
             Count(NewHeld.a, OldHeld.a[i]) = Count(OldHeld.a, OldHeld.a[i])

C8_Witness ==
    /\ opIdx > 0 /\ LastOp.opType = "reorder" /\ LastOp.order = <<2, 0, 1>>
    /\ OldHeld = A(<<S("a"), S("b"), S("c")>>)
    /\ NewHeld = A(<<S("c"), S("a"), S("b")>>)

\* The record after the operations of a list, applied in order from the left.
RECURSIVE ApplyAll(_, _)
ApplyAll(d, ops) ==
    IF ops = <<>> \/ IsThrown(d) THEN d ELSE ApplyAll(ApplyOperation(d, Head(ops)), Tail(ops))

\* C10: the operations are applied in list order to the in-memory record; the
\* file is written at most once, after the last operation, with the record
\* all operations have been applied to; when an operation throws nothing is
\* written and the files are as they were.
C10_WriteOnceAfterAll ==
    /\ writeCount <= 1
    /\ writeCount = 0 => files = original
    /\ pc = "applying" =>
         data = ApplyAll(getFileData(original, document.id), SubSeq(operations, 1, opIdx))
    /\ writeCount = 1 =>
         /\ opIdx = Len(operations)
         /\ data = ApplyAll(getFileData(original, document.id), operations)
         /\ \A p \in Paths \ {document.id} : files[p] = original[p]
         /\ getFileData(files, document.id) = data
         /\ document.id \in MarkdownPaths =>
              files[document.id].markdown = original[document.id].markdown
    /\ (pc = "threw" /\ opIdx < Len(operations)) =>
         /\ writeCount = 0
         /\ data # None => IsThrown(ApplyOperation(data, operations[opIdx + 1]))

C10_Witness ==
    /\ pc = "threw" /\ opIdx = 1 /\ Len(operations) = 2
    /\ operations[2].opType = "insert" /\ operations[2].fieldPath = <<"missing">>
    /\ data # getFileData(original, document.id)
    /\ files = original /\ writeCount = 0

(***************************************************************************)
(* The batch reads: getDocuments and onFilesChange.                        *)
(***************************************************************************)
\* utils.readDirRec of the content directory.
ContentFiles == <<"a.md", "b.json">>
AssetFiles == {"static/logo.png"}

\* updatedFile.startsWith(this.contentDir), updatedFile.startsWith(assetsDir)
InContentDir(path) == path \in {"a.md", "b.json", "gone.json"}
InAssetsDir(path) == path \in {"static/logo.png", "static/old.png"}

\* fse.pathExists
PathExists(fs, path) == path \in DOMAIN fs \/ path \in AssetFiles

\* Lines 296-317.  The url, the title and the dates are left out.
convertAsset(filePath) == [k |-> "asset", type |-> "asset", id |-> filePath, fileName |-> filePath]

\* Lines 82-85, 152-158 and 93-97, 159-163: what the loop does with one file.
\* A file that is gone is reported deleted; a file that cannot be loaded and a
\* record without a model are skipped; an error of convertDocument is not
\* caught.
Skip == [k |-> "skip"]
Deleted == [k |-> "deleted"]
ConvertedOutcome(doc) == IF doc = Null THEN Skip ELSE doc
LoadedOutcome(path, d) == IF IsThrown(d) THEN Skip ELSE ConvertedOutcome(convertDocument(path, d))
FileOutcome(fs, path) ==
    IF ~PathExists(fs, path) THEN Deleted ELSE LoadedOutcome(path, getFileData(fs, path))

\* Lines 80-99 and 150-165: the loop over the files, from the outcome of each.
Collect(paths, outcomes) ==
    LET Throws(i) == IsThrown(outcomes[i])
        IsDocument(o) == o.k = "document"
        Gone(i) == outcomes[i] = Deleted
        gone == {i \in 1..Len(paths) : Gone(i)}
        Rank(i) == Cardinality({j \in gone : j <= i})
    IN IF \E i \in 1..Len(paths) : Throws(i)
       THEN outcomes[First({i \in 1..Len(paths) : Throws(i)})]
       ELSE [k |-> "read",
             documents |-> SelectSeq(outcomes, IsDocument),
             deleted |-> [r \in 1..Cardinality(gone) |->
                            paths[CHOOSE i \in gone : Rank(i) = r]]]

ReadFiles(fs, paths) == Collect(paths, [i \in 1..Len(paths) |-> FileOutcome(fs, paths[i])])

\* Lines 147-167: what getDocuments resolves to, or Thrown when it rejects.
DocumentsOf(r) == IF IsThrown(r) THEN r ELSE [k |-> "documents", documents |-> r.documents]
getDocuments(fs) == DocumentsOf(ReadFiles(fs, ContentFiles))

\* Lines 101-123: the assets and the event returned.
ChangeEvent(fs, r, assetFiles) ==
    LET Exists(f) == PathExists(fs, f)
        Gone(f) == ~PathExists(fs, f)
        kept == SelectSeq(assetFiles, Exists)
    IN IF IsThrown(r) THEN r
       ELSE [k |-> "change", schemaChanged |-> FALSE,
             documents |-> r.documents,
             assets |-> [i \in 1..Len(kept) |-> convertAsset(kept[i])],
             deletedDocumentIds |-> r.deleted,
             deletedAssetIds |-> SelectSeq(assetFiles, Gone)]

\* Lines 66-124: what onFilesChange resolves to, or Thrown when it rejects.
onFilesChange(fs, hasModelMap, updatedFiles) ==
    IF ~hasModelMap THEN [k |-> "empty"]
    ELSE ChangeEvent(fs, ReadFiles(fs, SelectSeq(updatedFiles, InContentDir)),
                     SelectSeq(updatedFiles, InAssetsDir))

LegacyRecord == M([type |-> S("post"), title |-> S("a"), legacy |-> S("a")])
ReadRecords == {PostRecord, ShortRecord, GhostRecord, LegacyRecord}

UpdatedFileLists ==
    {<<"a.md", "b.json">>,
     <<"b.json", "gone.json", "static/logo.png", "static/old.png", "README.md">>,
     <<"a.md">>}

Batch(call, files_, result) == [k |-> "batch", call |-> call, files |-> files_, result |-> result]

InitRead ==
    /\ target \in Targets
    /\ \E a \in {Markdown(r, "body") : r \in ReadRecords} \cup {Unparsable},
          b \in ReadRecords \cup {Unparsable} :
         files = [p \in Paths |-> IF p = "a.md" THEN a ELSE b]
    /\ original = files
    /\ pc = "off" /\ document = None /\ operations = <<>> /\ opIdx = 0
    /\ data = None /\ before = None /\ returned = None /\ writeCount = 0
    /\ ConvIdle /\ ReadIdle

\* Lines 126-134.
StartWatchingContentUpdates ==
    /\ watching' = TRUE
    /\ UNCHANGED <<target, batch, convVars, updVars>>

GetDocuments ==
    /\ batch' = Batch("getDocuments", ContentFiles, getDocuments(files))
    /\ UNCHANGED <<target, watching, convVars, updVars>>

OnFilesChange ==
    /\ \E updatedFiles \in UpdatedFileLists :
         batch' = Batch("onFilesChange", SelectSeq(updatedFiles, InContentDir),
                        onFilesChange(files, watching, updatedFiles))
    /\ UNCHANGED <<target, watching, convVars, updVars>>

NextRead == StartWatchingContentUpdates \/ GetDocuments \/ OnFilesChange

SpecRead == InitRead /\ [][NextRead]_vars

(***************************************************************************)
(* Properties of the batch reads (checked under SpecRead).                 *)
(***************************************************************************)
\* The files of a read whose record converts to a Document.
Convertible(paths) ==
    LET Ok(p) == /\ p \in DOMAIN files
                 /\ ~IsThrown(getFileData(files, p))
                 /\ convertDocument(p, getFileData(files, p)).k = "document"
    IN SelectSeq(paths, Ok)

\* C2: a batch read in which the conversion of a file throws for an unknown
\* field-type tag still completes, and returns the documents of every other
\* file that converts.
C2_BadFileExcluded ==
    (batch.k = "batch" /\ batch.result.k # "empty") =>
        /\ ~IsThrown(batch.result)
        /\ [i \in 1..Len(batch.result.documents) |-> batch.result.documents[i].id]
             = Convertible(batch.files)

====
